---- MODULE Spec2Model ----
(***************************************************************************)
(* Model of the caption aggregator of the interview coach extension        *)
(* (class CaptionGrabber, src/content/teams-captions.js).                  *)
(*                                                                         *)
(* A JavaScript string is a sequence of one-character strings, so that     *)
(* trim, startsWith, includes, join and the regular expressions of         *)
(* isUIText are computed character by character as the engine does.        *)
(***************************************************************************)
EXTENDS Integers, Sequences, FiniteSets, TLC

(***************************************************************************)
(* Program constants                                                       *)
(***************************************************************************)
MaxBufferItems == 25
WindowMs == 90000
MinTextLength == 2
PollMinLength == 2

(***************************************************************************)
(* Bounds of the model                                                     *)
(***************************************************************************)
MaxBatch == 1
MaxEntries == 2
MaxClock == 1
MaxUtterances == 27
FifoMaxClock == 1

\* clicks on Generate Answer in the pipeline scenario
MaxClicks == 1

\* results in one reply of the retrieval service
MaxResults == 4

\* visible caption-text elements in the poll scenario
MaxElements == 2

(***************************************************************************)
(* Strings                                                                 *)
(***************************************************************************)
WhiteSpace == {" ", "\t", "\n"}
UpperChars == <<"A","B","C","D","E","F","G","H","I","J","K","L","M",
                "N","O","P","Q","R","S","T","U","V","W","X","Y","Z">>
LowerChars == <<"a","b","c","d","e","f","g","h","i","j","k","l","m",
                "n","o","p","q","r","s","t","u","v","w","x","y","z">>
DigitChars == <<"0","1","2","3","4","5","6","7","8","9">>

UpperSet == {UpperChars[i] : i \in 1..Len(UpperChars)}
DigitSet == {DigitChars[i] : i \in 1..Len(DigitChars)}
LowerOf == [c \in UpperSet |->
                LowerChars[CHOOSE i \in 1..Len(UpperChars) : UpperChars[i] = c]]

isUpper(c) == c \in UpperSet
isDigit(c) == c \in DigitSet

\* case folding of the /i flag on ASCII letters
toLower(c) == IF isUpper(c) THEN LowerOf[c] ELSE c

RECURSIVE trimStart(_)
trimStart(s) ==
    IF s # <<>> /\ Head(s) \in WhiteSpace THEN trimStart(Tail(s)) ELSE s

RECURSIVE trimEnd(_)
trimEnd(s) ==
    IF s # <<>> /\ s[Len(s)] \in WhiteSpace
    THEN trimEnd(SubSeq(s, 1, Len(s) - 1))
    ELSE s

\* String.prototype.trim
trim(s) == trimEnd(trimStart(s))

\* String.prototype.startsWith
startsWith(s, p) == Len(p) <= Len(s) /\ SubSeq(s, 1, Len(p)) = p

\* String.prototype.includes
includes(s, p) ==
    \E i \in 0..(Len(s) - Len(p)) : SubSeq(s, i + 1, i + Len(p)) = p

\* Array.prototype.join
RECURSIVE join(_, _)
join(lines, sep) ==
    IF lines = <<>> THEN <<>>
    ELSE IF Len(lines) = 1 THEN lines[1]
    ELSE lines[1] \o sep \o join(Tail(lines), sep)

(***************************************************************************)
(* isUIText: the eight regular expressions                                 *)
(***************************************************************************)
\* /^lit/i
prefixCI(text, lit) ==
    /\ Len(text) >= Len(lit)
    /\ \A i \in 1..Len(lit) : toLower(text[i]) = toLower(lit[i])

\* /^lit$/i
wholeCI(text, lit) == Len(text) = Len(lit) /\ prefixCI(text, lit)

\* /^[0-9]{1,2}:[0-9]{2}/
reClock(text) ==
    \E n \in 1..2 :
        /\ Len(text) >= n + 3
        /\ \A i \in 1..n : isDigit(text[i])
        /\ text[n + 1] = ":"
        /\ isDigit(text[n + 2])
        /\ isDigit(text[n + 3])

\* mutant: the i flag is missing
reAmPm_caseSensitive(text) == text = <<"A","M">> \/ text = <<"P","M">>

\* /^(AM|PM)$/i
reAmPm(text) == wholeCI(text, <<"A","M">>) \/ wholeCI(text, <<"P","M">>)

\* /^(Today|Yesterday)$/i
reDay(text) ==
    \/ wholeCI(text, <<"T","o","d","a","y">>)
    \/ wholeCI(text, <<"Y","e","s","t","e","r","d","a","y">>)

\* /^(Turn on|Turn off|Enable|Disable)/i
reToggle(text) ==
    \/ prefixCI(text, <<"T","u","r","n"," ","o","n">>)
    \/ prefixCI(text, <<"T","u","r","n"," ","o","f","f">>)
    \/ prefixCI(text, <<"E","n","a","b","l","e">>)
    \/ prefixCI(text, <<"D","i","s","a","b","l","e">>)

\* /^(Mute|Unmute|Share|Stop|Leave|Join)/i
reControl(text) ==
    \/ prefixCI(text, <<"M","u","t","e">>)
    \/ prefixCI(text, <<"U","n","m","u","t","e">>)
    \/ prefixCI(text, <<"S","h","a","r","e">>)
    \/ prefixCI(text, <<"S","t","o","p">>)
    \/ prefixCI(text, <<"L","e","a","v","e">>)
    \/ prefixCI(text, <<"J","o","i","n">>)

\* /^[A-Z]{2,3}$/
reInitials(text) ==
    /\ Len(text) \in 2..3
    /\ \A i \in 1..Len(text) : isUpper(text[i])

\* /^Live captions/i
reBanner(text) ==
    prefixCI(text, <<"L","i","v","e"," ","c","a","p","t","i","o","n","s">>)

\* /^\.\.\./
reEllipsis(text) == startsWith(text, <<".",".",".">>)

isUIText(text) ==
    LET t == trim(text) IN
        \/ reClock(t)
        \/ reAmPm(t)
        \/ reDay(t)
        \/ reToggle(t)
        \/ reControl(t)
        \/ reInitials(t)
        \/ reBanner(t)
        \/ reEllipsis(t)

(***************************************************************************)
(* processText                                                             *)
(***************************************************************************)
\* mutant: only a prefix extension counts as an update
isUpdateOf_prefixOnly(text, lastText) == startsWith(text, lastText)

\* Case A: the new text is an update of the last text
isUpdateOf(text, lastText) ==
    startsWith(text, lastText) \/ includes(text, lastText)

\* mutant: Case B is missing
isStaleOf_never(text, lastText) == FALSE

\* Case B: the old text contains the new text
isStaleOf(text, lastText) == includes(lastText, text)

\* mutant: the comparison reads the oldest entry
lastEntry_first(buf) == buf[1]

\* const lastEntry = this.buffer[this.buffer.length - 1]
lastEntry(buf) == buf[Len(buf)]

\* mutant: an update pushes a new entry
overwriteLast_push(buf, text, t) == Append(buf, [text |-> text, time |-> t])

\* mutant: an update rewrites the oldest entry
overwriteLast_first(buf, text, t) ==
    [buf EXCEPT ![1] = [text |-> text, time |-> t]]

\* lastEntry.text = text; lastEntry.time = Date.now()
overwriteLast(buf, text, t) ==
    [buf EXCEPT ![Len(buf)] = [text |-> text, time |-> t]]

\* this.buffer.push({text, time: Date.now()})
push(buf, text, t) == Append(buf, [text |-> text, time |-> t])

\* mutant: nothing is evicted
shiftIfOver_never(buf) == buf

\* mutant: the newest entry is dropped instead of the oldest
shiftIfOver_pop(buf) ==
    IF Len(buf) > MaxBufferItems THEN SubSeq(buf, 1, Len(buf) - 1) ELSE buf

\* if (this.buffer.length > 25) this.buffer.shift()
shiftIfOver(buf) == IF Len(buf) > MaxBufferItems THEN Tail(buf) ELSE buf

\* The buffer after the call and the return point that was taken.
processText(buf, rawText, t) ==
    IF rawText = <<>> THEN [buffer |-> buf, path |-> "empty"]
    ELSE LET text == trim(rawText) IN
        IF Len(text) < MinTextLength THEN [buffer |-> buf, path |-> "short"]
        ELSE IF isUIText(text) THEN [buffer |-> buf, path |-> "noise"]
        ELSE IF Len(buf) > 0 /\ isUpdateOf(text, lastEntry(buf).text)
            THEN [buffer |-> overwriteLast(buf, text, t), path |-> "update"]
        ELSE IF Len(buf) > 0 /\ isStaleOf(text, lastEntry(buf).text)
            THEN [buffer |-> buf, path |-> "stale"]
        ELSE IF Len(buf) > 0 /\ lastEntry(buf).text = text
            THEN [buffer |-> buf, path |-> "duplicate"]
        ELSE [buffer |-> shiftIfOver(push(buf, text, t)),
              path |-> IF Len(buf) + 1 > MaxBufferItems
                       THEN "evict" ELSE "append"]

\* The calls of one handler run, in order. st carries the buffer and, of the
\* calls made so far, the raw text and return point of the last one and whether
\* the last two received the same raw text.
RECURSIVE forEachText(_, _, _)
forEachText(st, texts, t) ==
    IF texts = <<>> THEN st
    ELSE LET r == processText(st.buffer, Head(texts), t) IN
        forEachText([buffer |-> r.buffer,
                     path |-> r.path,
                     frag |-> Head(texts),
                     repeated |-> st.path # "none" /\ st.frag = Head(texts)],
                    Tail(texts), t)

\* The poll hands over the trimmed texts longer than two characters.
pollTexts(captionTexts) ==
    LET trimmed == [i \in 1..Len(captionTexts) |-> trim(captionTexts[i])] IN
        SelectSeq(trimmed, LAMBDA text : text # <<>> /\ Len(text) > PollMinLength)

(***************************************************************************)
(* getRecentCaptions                                                       *)
(***************************************************************************)
\* mutant: an entry exactly WindowMs old still counts as recent
getRecentCaptions_inclusive(buf, t) ==
    LET activeLines == SelectSeq(buf, LAMBDA item : t - item.time <= WindowMs)
        lines == [i \in 1..Len(activeLines) |-> activeLines[i].text]
    IN  [buffer |-> buf, value |-> join(lines, <<"\n">>)]

\* mutant: the entries that aged out are dropped from the buffer
getRecentCaptions_prune(buf, t) ==
    LET activeLines == SelectSeq(buf, LAMBDA item : t - item.time < WindowMs)
        lines == [i \in 1..Len(activeLines) |-> activeLines[i].text]
    IN  [buffer |-> activeLines, value |-> join(lines, <<"\n">>)]

\* The buffer after the call and the returned string.
getRecentCaptions(buf, t) ==
    LET activeLines == SelectSeq(buf, LAMBDA item : t - item.time < WindowMs)
        lines == [i \in 1..Len(activeLines) |-> activeLines[i].text]
    IN  [buffer |-> buf, value |-> join(lines, <<"\n">>)]

(***************************************************************************)
(* Background worker: configuration                                        *)
(***************************************************************************)
\* RAG_CONFIG.ENABLED
RagEnabledConfig == TRUE

\* RAG_CONFIG.TOP_K, sent to the retrieval service as the request's limit
TOP_K == 3

\* RAG_CONFIG.MIN_SIMILARITY (0.5); similarities are counted in hundredths
MIN_SIMILARITY == 50

\* PROVIDERS_CONFIG: the five known providers
PROVIDERS_CONFIG ==
    [p \in {"pollinations", "openai", "gemini", "openrouter", "groq"} |->
        [name |-> CASE p = "pollinations" -> "Pollinations AI"
                    [] p = "openai"       -> "OpenAI"
                    [] p = "gemini"       -> "Google Gemini"
                    [] p = "openrouter"   -> "OpenRouter"
                    [] p = "groq"         -> "Groq",
         requiresKey |-> p # "pollinations"]]

(***************************************************************************)
(* JavaScript values handed between the worker and the page                *)
(* A value is [t, v]: t is "absent", "undefined", "null" or "string", and  *)
(* v is the string as a sequence of pieces (<<>> unless t = "string").     *)
(***************************************************************************)
Absent == [t |-> "absent", v |-> <<>>]

Undefined == [t |-> "undefined", v |-> <<>>]

Null == [t |-> "null", v |-> <<>>]

Str(pieces) == [t |-> "string", v |-> pieces]

\* JavaScript truthiness of a value
truthy(val) == val.t = "string" /\ val.v # <<>>

\* `${x}` and "..." + x
toString(val) ==
    CASE val.t = "string"    -> val.v
      [] val.t = "null"      -> <<"null">>
      [] OTHER               -> <<"undefined">>

\* { text }
TextResult(val) == [text |-> val, error |-> Absent, usedRag |-> FALSE]

\* { error }
ErrorResult(pieces) == [text |-> Absent, error |-> Str(pieces), usedRag |-> FALSE]

\* what an awaited adapter call gives: a returned result or a thrown fault
Returned(result) == [thrown |-> FALSE, result |-> result, message |-> <<>>]

Thrown(message) == [thrown |-> TRUE, result |-> ErrorResult(<<>>), message |-> message]

(***************************************************************************)
(* HTTP replies of the backends                                            *)
(* A reply is [rejects, ok, body]; body names the shape of what the server *)
(* sent, in the terms in which the adapters inspect it.                    *)
(***************************************************************************)
AnswerText == <<"Use IDCAMS REPRO.">>

ErrorDetail == <<"quota exceeded">>

RejectDetail == <<"Failed to fetch">>

\* response.text(): the raw body
bodyText(body) ==
    CASE body = "answer"      -> AnswerText
      [] body = "emptyAnswer" -> <<>>
      [] OTHER                -> <<"{", body, "}">>

\* response.json() fails
unparsable(body) == body = "unparsable"

\* data.error is truthy
hasError(body) == body \in {"errorObject", "errorString"}

\* data.error.message
errorMessage(body) == IF body = "errorObject" THEN Str(ErrorDetail) ELSE Undefined

\* data.choices[0] / data.candidates[0] exists
hasFirstChoice(body) ==
    body \in {"answer", "emptyAnswer", "nullAnswer", "absentAnswer"}

\* choices[0].message.content / candidates[0].content.parts[0].text
contentOf(body) ==
    CASE body = "answer"      -> Str(AnswerText)
      [] body = "emptyAnswer" -> Str(<<>>)
      [] body = "nullAnswer"  -> Null
      [] OTHER                -> Undefined

(***************************************************************************)
(* Provider adapters                                                       *)
(***************************************************************************)
callPollinations(reply) ==
    IF reply.rejects THEN Thrown(RejectDetail)
    ELSE IF ~reply.ok THEN Returned(ErrorResult(<<"Pollinations Error: ", "status">>))
    ELSE Returned(TextResult(Str(bodyText(reply.body))))

callOpenAI(reply) ==
    IF reply.rejects THEN Thrown(RejectDetail)
    ELSE IF unparsable(reply.body) THEN Thrown(<<"Unexpected token">>)
    ELSE IF hasError(reply.body)
         THEN Returned(ErrorResult(<<"OpenAI Error: ">> \o toString(errorMessage(reply.body))))
    ELSE IF ~hasFirstChoice(reply.body) THEN Thrown(<<"Cannot read properties of undefined">>)
    ELSE Returned(TextResult(contentOf(reply.body)))

\* mutant: the candidate text is handed on without a test
callGemini_unchecked(reply) ==
    IF reply.rejects THEN Thrown(RejectDetail)
    ELSE IF unparsable(reply.body) THEN Thrown(<<"Unexpected token">>)
    ELSE IF hasError(reply.body)
         THEN Returned(ErrorResult(<<"Gemini Error: ">> \o toString(errorMessage(reply.body))))
    ELSE IF ~hasFirstChoice(reply.body) THEN Thrown(<<"Cannot read properties of undefined">>)
    ELSE Returned(TextResult(contentOf(reply.body)))

callGemini(reply) ==
    IF reply.rejects THEN Thrown(RejectDetail)
    ELSE IF unparsable(reply.body) THEN Thrown(<<"Unexpected token">>)
    ELSE IF hasError(reply.body)
         THEN Returned(ErrorResult(<<"Gemini Error: ">> \o toString(errorMessage(reply.body))))
    ELSE IF hasFirstChoice(reply.body) /\ truthy(contentOf(reply.body))
         THEN Returned(TextResult(contentOf(reply.body)))
    ELSE Returned(ErrorResult(<<"Gemini: No response generated">>))

callOpenRouter(reply) ==
    IF reply.rejects THEN Thrown(RejectDetail)
    ELSE IF unparsable(reply.body) THEN Thrown(<<"Unexpected token">>)
    ELSE IF hasError(reply.body)
         THEN Returned(ErrorResult(<<"OpenRouter Error: ">> \o
                  (IF truthy(errorMessage(reply.body))
                   THEN errorMessage(reply.body).v
                   ELSE <<"\"", reply.body, "\"">>)))
    ELSE IF hasFirstChoice(reply.body) /\ truthy(contentOf(reply.body))
         THEN Returned(TextResult(contentOf(reply.body)))
    ELSE Returned(ErrorResult(<<"OpenRouter: No response generated">>))

callGroq(reply) ==
    IF reply.rejects THEN Thrown(RejectDetail)
    ELSE IF unparsable(reply.body) THEN Thrown(<<"Unexpected token">>)
    ELSE IF hasError(reply.body)
         THEN Returned(ErrorResult(<<"Groq Error: ">> \o toString(errorMessage(reply.body))))
    ELSE IF ~hasFirstChoice(reply.body) THEN Thrown(<<"Cannot read properties of undefined">>)
    ELSE Returned(TextResult(contentOf(reply.body)))

\* the switch on the provider name; an unlisted name falls to the default
adapterOf(provider) ==
    CASE provider = "pollinations" -> "callPollinations"
      [] provider = "gemini"       -> "callGemini"
      [] provider = "openrouter"   -> "callOpenRouter"
      [] provider = "groq"         -> "callGroq"
      [] OTHER                     -> "callOpenAI"

callAdapter(adapter, reply) ==
    CASE adapter = "callPollinations" -> callPollinations(reply)
      [] adapter = "callGemini"       -> callGemini(reply)
      [] adapter = "callOpenRouter"   -> callOpenRouter(reply)
      [] adapter = "callGroq"         -> callGroq(reply)
      [] OTHER                        -> callOpenAI(reply)

(***************************************************************************)
(* getRagContext                                                           *)
(* A reply of the retrieval service is [rejects, ok, parsable, hasResults, *)
(* results]; a result is [title, content, similarity].                     *)
(***************************************************************************)
\* mutant: a result exactly at the threshold is dropped
relevant_strict(r) == r.similarity > MIN_SIMILARITY

\* the filter over data.results
relevant(r) == r.similarity >= MIN_SIMILARITY

\* `[${r.title}]: ${r.content}`
snippet(r) == <<"[", r.title, "]: ", r.content>>

\* what the awaited call gives: the returned string, and the return point
Context(pieces, path) == [thrown |-> FALSE, value |-> pieces, path |-> path]

\* mutant: a rejected fetch escapes the function
getRagContext_uncaught(reply) ==
    IF ~RagEnabledConfig THEN Context(<<>>, "disabled")
    ELSE IF reply.rejects THEN [thrown |-> TRUE, value |-> <<>>, path |-> "thrown"]
    ELSE IF ~reply.ok THEN Context(<<>>, "notOk")
    ELSE IF ~reply.parsable \/ ~reply.hasResults THEN Context(<<>>, "caught")
    ELSE LET relevantChunks == SelectSeq(reply.results, relevant)
             blocks == [i \in 1..Len(relevantChunks) |-> snippet(relevantChunks[i])]
         IN  Context(join(blocks, <<"\n\n">>), "joined")

\* path: "disabled", "notOk", "caught" (the catch block) or "joined"
getRagContext(reply) ==
    IF ~RagEnabledConfig THEN Context(<<>>, "disabled")
    ELSE IF reply.rejects THEN Context(<<>>, "caught")
    ELSE IF ~reply.ok THEN Context(<<>>, "notOk")
    ELSE IF ~reply.parsable \/ ~reply.hasResults THEN Context(<<>>, "caught")
    ELSE LET relevantChunks == SelectSeq(reply.results, relevant)
             blocks == [i \in 1..Len(relevantChunks) |-> snippet(relevantChunks[i])]
         IN  Context(join(blocks, <<"\n\n">>), "joined")

(***************************************************************************)
(* handleGenerateResponse                                                  *)
(* A request is the activation of the handler for one message: its locals, *)
(* its position (pc), the fetches it issued and what it handed to          *)
(* sendResponse.                                                           *)
(***************************************************************************)
NewRequest(captions) ==
    [sender |-> 1, payload |-> captions, pc |-> "storage",
     tone |-> "undefined", provider |-> "", apiKey |-> "",
     ragEnabled |-> FALSE, ragContext |-> <<>>, ragPath |-> "none",
     search |-> [query |-> <<>>, limit |-> 0], systemPrompt |-> <<>>,
     adapter |-> "none", ragCalls |-> 0, backendCalls |-> 0, sent |-> <<>>,
     button |-> 1]

sendResponse(req, result) == [req EXCEPT !.sent = Append(@, result)]

\* mutant: the knowledge-base block is added whatever the context
composePrompt_kbAlways(ragContext, captions) ==
    <<"PREAMBLE">>
    \o <<"KNOWLEDGE BASE CONTEXT: ">> \o ragContext \o <<" END OF KNOWLEDGE BASE">>
    \o <<"INTERVIEWER JUST ASKED: ">> \o captions \o <<"Generate the IDEAL spoken answer now.">>

\* the system prompt: preamble, knowledge-base block if any, the question
composePrompt(ragContext, captions) ==
    <<"PREAMBLE">>
    \o (IF ragContext # <<>>
        THEN <<"KNOWLEDGE BASE CONTEXT: ">> \o ragContext \o <<" END OF KNOWLEDGE BASE">>
        ELSE <<>>)
    \o <<"INTERVIEWER JUST ASKED: ">> \o captions \o <<"Generate the IDEAL spoken answer now.">>

\* step 3 and the switch: compose the prompt and start the adapter's fetch
dispatch(req) ==
    [req EXCEPT !.systemPrompt = composePrompt(req.ragContext, req.payload),
                !.adapter = adapterOf(req.provider),
                !.backendCalls = @ + 1,
                !.pc = "backend"]

\* step 2: the retrieval fetch starts with the query and the limit in its
\* body, unless RAG is off
startRag(req) ==
    IF req.ragEnabled /\ RagEnabledConfig
    THEN [req EXCEPT !.search = [query |-> req.payload, limit |-> TOP_K],
                     !.ragCalls = @ + 1, !.pc = "rag"]
    ELSE dispatch(req)

\* mutant: the key check is skipped
missingKey_never(provider, apiKey) == FALSE

\* providerConfig.requiresKey && !apiKey
missingKey(provider, apiKey) == PROVIDERS_CONFIG[provider].requiresKey /\ apiKey = ""

\* mutant: the return after the missing-key response is left out
checkKey_noReturn(req) ==
    IF missingKey(req.provider, req.apiKey)
    THEN startRag(sendResponse(req, ErrorResult(
             <<"No API Key found for ", PROVIDERS_CONFIG[req.provider].name,
               ". Please open extension settings.">>)))
    ELSE startRag(req)

checkKey(req) ==
    IF missingKey(req.provider, req.apiKey)
    THEN [sendResponse(req, ErrorResult(
             <<"No API Key found for ", PROVIDERS_CONFIG[req.provider].name,
               ". Please open extension settings.">>))
          EXCEPT !.pc = "returned"]
    ELSE startRag(req)

\* mutant: retrieval is on only when ragEnabled is stored as true
resolveSettings_ragOptIn(req, settings) ==
    LET provider == IF settings.provider \in {"undefined", ""}
                    THEN "pollinations" ELSE settings.provider
        withLocals == [req EXCEPT !.tone = settings.tone,
                                  !.provider = provider,
                                  !.ragEnabled = (settings.ragEnabled = "true"),
                                  !.apiKey = IF provider \in DOMAIN settings.apiKeys
                                             THEN settings.apiKeys[provider]
                                             ELSE ""]
    IN  IF provider \notin DOMAIN PROVIDERS_CONFIG
        THEN [withLocals EXCEPT !.pc = "faulted"]
        ELSE checkKey(withLocals)

\* step 1, after the storage read resolved with settings
resolveSettings(req, settings) ==
    LET provider == IF settings.provider \in {"undefined", ""}
                    THEN "pollinations" ELSE settings.provider
        withLocals == [req EXCEPT !.tone = settings.tone,
                                  !.provider = provider,
                                  !.ragEnabled = (settings.ragEnabled # "false"),
                                  !.apiKey = IF provider \in DOMAIN settings.apiKeys
                                             THEN settings.apiKeys[provider]
                                             ELSE ""]
    IN  IF provider \notin DOMAIN PROVIDERS_CONFIG
        THEN [withLocals EXCEPT !.pc = "faulted"]
        ELSE checkKey(withLocals)

\* after the retrieval call settled
ragSettled(req, reply) ==
    LET context == getRagContext(reply) IN
        IF context.thrown
        THEN [req EXCEPT !.pc = "faulted", !.ragPath = context.path]
        ELSE dispatch([req EXCEPT !.ragContext = context.value,
                                  !.ragPath = context.path])

\* if (ragContext && response.text) response.usedRag = true
annotate(ragContext, response) ==
    IF ragContext # <<>> /\ truthy(response.text)
    THEN [response EXCEPT !.usedRag = TRUE]
    ELSE response

\* mutant: a fault of the adapter is answered by one more call
deliver_retry(req, outcome) ==
    IF outcome.thrown /\ req.backendCalls < 2
    THEN dispatch(req)
    ELSE IF outcome.thrown
    THEN [sendResponse(req, ErrorResult(<<"Network Error: ">> \o outcome.message))
          EXCEPT !.pc = "returned"]
    ELSE [sendResponse(req, annotate(req.ragContext, outcome.result))
          EXCEPT !.pc = "returned"]

\* mutant: a fault of the adapter escapes the handler
deliver_uncaught(req, outcome) ==
    IF outcome.thrown
    THEN [req EXCEPT !.pc = "faulted"]
    ELSE [sendResponse(req, annotate(req.ragContext, outcome.result))
          EXCEPT !.pc = "returned"]

\* the try block after the adapter settled, and its catch
deliver(req, outcome) ==
    IF outcome.thrown
    THEN [sendResponse(req, ErrorResult(<<"Network Error: ">> \o outcome.message))
          EXCEPT !.pc = "returned"]
    ELSE [sendResponse(req, annotate(req.ragContext, outcome.result))
          EXCEPT !.pc = "returned"]

backendSettled(req, reply) == deliver(req, callAdapter(req.adapter, reply))

(***************************************************************************)
(* Sidebar: the Generate Answer button                                     *)
(***************************************************************************)
\* mutant: the guard on the captions is left out
tooShort_never(captions) == FALSE

\* !captions || captions.trim().length < 2
tooShort(captions) == captions = <<>> \/ Len(trim(captions)) < 2

\* mutant: every response goes to the first tab
recipient_firstTab(req) == 1

\* the page whose sendMessage callback the sendResponse of req is bound to
recipient(req) == req.sender

InsufficientInput ==
    [type |-> "error", text |-> <<"Can't read captions yet. Wait for someone to speak.">>]

PleaseRefresh == [type |-> "error", text |-> <<"Error: Please refresh the page.">>]

\* the message the response callback adds for a response
messageOf(response) ==
    IF truthy(response.error)
    THEN [type |-> "error", text |-> response.error.v]
    ELSE IF response.usedRag
    THEN [type |-> "rag", text |-> <<"KB ">> \o toString(response.text)]
    ELSE [type |-> "normal", text |-> toString(response.text)]

\* handleCloudSyncAll has not been called
NoSync == [pc |-> "idle", localDocs |-> <<>>, syncedCount |-> 0, init |-> 0,
           sent |-> <<>>, listed |-> 0, attempted |-> 0, saved |-> 0]

(***************************************************************************)
(* State                                                                   *)
(***************************************************************************)
VARIABLES
    buffer,       \* this.buffer: sequence of [text, time]
    isListening,  \* this.isListening
    captionNode,  \* this.captionNode: "null" or the located node
    probing,      \* the 2 s interval of findCaptionContainer is running
    now,          \* Date.now()
    caption,      \* the caption line the host page shows: [n, done]
    op,           \* the handler that ran last
    frag,         \* raw text of the last processText call
    path,         \* return point of the last processText call
    repeated,     \* the last two processText calls received the same raw text
    ret,          \* value returned by the handler that ran last
    requests,     \* the running activations of handleGenerateResponse
    btnDisabled,  \* triggerBtn.disabled
    lastMessage,  \* the message addMessage showed last
    clicks,       \* clicks on Generate Answer so far
    peer,         \* the sidebar of a second tab: [disabled, message, clicks]
    isHidden,     \* Sidebar.isHidden
    launcher,     \* style.display of #sc-launcher, or "absent" from the document
    widget,       \* style.display of #sc-widget, or "absent" from the document
    keydownListeners, \* keydown listeners that setupStealthMode has added
    triggerBtn,   \* the #sc-trigger-btn inserted last, numbered by injection
    firebaseConfig,   \* firebaseConfig.apiKey
    app,          \* app of firebase-config.js: 0 is null
    db,           \* db of firebase-config.js: 0 is null
    isInitialized,    \* isInitialized of firebase-config.js
    initializeAppCalls, \* invocations of initializeApp so far
    inits,        \* the activations of initFirebase
    sync          \* the activation of handleCloudSyncAll

vars == <<buffer, isListening, captionNode, probing, now, caption,
          op, frag, path, repeated, ret,
          requests, btnDisabled, lastMessage, clicks, peer,
          isHidden, launcher, widget, keydownListeners, triggerBtn,
          firebaseConfig, app, db, isInitialized, initializeAppCalls, inits, sync>>

\* the sidebar elements and the stealth flag
stealth == <<isHidden, launcher, widget, keydownListeners, triggerBtn>>

\* the Firebase module and the cloud handlers of the worker
cloud == <<firebaseConfig, app, db, isInitialized, initializeAppCalls, inits, sync>>

\* the state of the sidebars and of the worker
page == <<requests, btnDisabled, lastMessage, clicks, peer, stealth, cloud>>

Init ==
    /\ buffer = <<>>
    /\ isListening = FALSE
    /\ captionNode = "null"
    /\ probing = FALSE
    /\ now = 0
    /\ caption = [n |-> 0, done |-> TRUE]
    /\ op = "constructor"
    /\ frag = <<>>
    /\ path = "none"
    /\ repeated = FALSE
    /\ ret = <<>>
    /\ requests = <<>>
    /\ btnDisabled = FALSE
    /\ lastMessage = [type |-> "none", text |-> <<>>]
    /\ clicks = 0
    /\ peer = [disabled |-> FALSE, message |-> [type |-> "none", text |-> <<>>],
               clicks |-> 0]
    /\ isHidden = FALSE
    /\ launcher = ""
    /\ widget = ""
    /\ keydownListeners = 1
    /\ triggerBtn = 1
    /\ firebaseConfig = "YOUR_API_KEY"
    /\ app = 0
    /\ db = 0
    /\ isInitialized = FALSE
    /\ initializeAppCalls = 0
    /\ inits = <<>>
    /\ sync = NoSync

(***************************************************************************)
(* Handlers                                                                *)
(***************************************************************************)
\* init(): findCaptionContainer starts the probing interval
InitGrabber ==
    /\ ~probing
    /\ captionNode = "null"
    /\ probing' = TRUE
    /\ op' = "init"
    /\ ret' = <<>>
    /\ UNCHANGED <<buffer, isListening, captionNode, now, frag, path, repeated>>

\* mutant: the interval is left running after a match
Probe_keepsInterval(found) ==
    /\ probing
    /\ op' = "probe"
    /\ ret' = <<>>
    /\ IF found
       THEN /\ captionNode' = "node"
            /\ isListening' = TRUE
            /\ UNCHANGED probing
       ELSE UNCHANGED <<probing, captionNode, isListening>>
    /\ UNCHANGED <<buffer, now, frag, path, repeated>>

\* one run of the probing interval; found: some strategy matched
Probe(found) ==
    /\ probing
    /\ op' = "probe"
    /\ ret' = <<>>
    /\ IF found
       THEN /\ probing' = FALSE
            /\ captionNode' = "node"
            /\ isListening' = TRUE
       ELSE UNCHANGED <<probing, captionNode, isListening>>
    /\ UNCHANGED <<buffer, now, frag, path, repeated>>

\* mutant: nothing is taken in while the sidebar waits for a response
Ingest_pausedWhileWaiting(texts) ==
    IF btnDisabled
    THEN UNCHANGED <<buffer, path, frag, repeated>>
    ELSE LET st == forEachText([buffer |-> buffer, path |-> path, frag |-> frag,
                                repeated |-> repeated], texts, now)
         IN  /\ buffer' = st.buffer
             /\ path' = st.path
             /\ frag' = st.frag
             /\ repeated' = st.repeated

\* the processText calls of one ingestion handler run
Ingest(texts) ==
    LET st == forEachText([buffer |-> buffer, path |-> path, frag |-> frag,
                           repeated |-> repeated], texts, now)
    IN  /\ buffer' = st.buffer
        /\ path' = st.path
        /\ frag' = st.frag
        /\ repeated' = st.repeated

\* MutationObserver callback: texts are the strings of the mutation records
MutationCallback(texts) ==
    /\ isListening
    /\ op' = "mutation"
    /\ ret' = <<>>
    /\ Ingest(texts)
    /\ UNCHANGED <<isListening, captionNode, probing, now>>

\* one run of the 1 s interval over the visible caption-text elements
PollTick(captionTexts) ==
    /\ isListening
    /\ op' = "poll"
    /\ ret' = <<>>
    /\ Ingest(pollTexts(captionTexts))
    /\ UNCHANGED <<isListening, captionNode, probing, now>>

GetRecentCaptions ==
    /\ LET r == getRecentCaptions(buffer, now) IN
        /\ buffer' = r.buffer
        /\ ret' = r.value
    /\ op' = "getRecentCaptions"
    /\ UNCHANGED <<isListening, captionNode, probing, now, frag, path, repeated>>

\* the clock advances by d, up to limit
Tick(d, limit) ==
    /\ now + d <= limit
    /\ now' = now + d
    /\ op' = "tick"
    /\ ret' = <<>>
    /\ UNCHANGED <<buffer, isListening, captionNode, probing, frag, path, repeated>>

\* the non-empty batches of at most n texts of F
Batches(F, n) == UNION {[1..k -> F] : k \in 1..n}

\* the locator, which every scenario shares
Locate ==
    /\ \/ InitGrabber
       \/ \E found \in BOOLEAN : Probe(found)
    /\ UNCHANGED <<caption, page>>

\* seq without its i-th element
Remove(seq, i) == [j \in 1..(Len(seq) - 1) |-> IF j < i THEN seq[j] ELSE seq[j + 1]]

\* click on Generate Answer: the recent window is read; a window that is too
\* short is answered on the spot, any other is sent as GENERATE_RESPONSE and
\* the listener starts handleGenerateResponse, whose storage read is pending
TriggerClick ==
    /\ widget = ""
    /\ ~btnDisabled
    /\ clicks < MaxClicks
    /\ clicks' = clicks + 1
    /\ GetRecentCaptions
    /\ LET captions == getRecentCaptions(buffer, now).value IN
        IF tooShort(captions)
        THEN /\ lastMessage' = InsufficientInput
             /\ UNCHANGED <<requests, btnDisabled>>
        ELSE /\ btnDisabled' = TRUE
             /\ requests' = Append(requests,
                    [NewRequest(captions) EXCEPT !.button = triggerBtn])
             /\ UNCHANGED lastMessage
    /\ UNCHANGED <<peer, stealth, cloud>>

\* the same click in the sidebar of the second tab, whose grabber holds
\* captions: its GENERATE_RESPONSE reaches the same worker
PeerClick(captions) ==
    /\ ~peer.disabled
    /\ peer.clicks < MaxClicks
    /\ ~tooShort(captions)
    /\ peer' = [peer EXCEPT !.disabled = TRUE, !.clicks = @ + 1]
    /\ requests' = Append(requests, [NewRequest(captions) EXCEPT !.sender = 2])
    /\ UNCHANGED <<btnDisabled, lastMessage, clicks, stealth, cloud>>

\* chrome.storage.local.get resolved with settings; the handler runs up to
\* its next await or its end
StorageResolves(i, settings) ==
    /\ requests[i].pc = "storage"
    /\ requests' = [requests EXCEPT ![i] = resolveSettings(@, settings)]
    /\ UNCHANGED <<btnDisabled, lastMessage, clicks, peer, stealth, cloud>>

\* chrome.storage.local.get rejected: the await is outside any try
StorageRejects(i) ==
    /\ requests[i].pc = "storage"
    /\ requests' = [requests EXCEPT ![i].pc = "faulted"]
    /\ UNCHANGED <<btnDisabled, lastMessage, clicks, peer, stealth, cloud>>

\* the fetch of getRagContext settled with reply
RagSettles(i, reply) ==
    /\ requests[i].pc = "rag"
    /\ requests' = [requests EXCEPT ![i] = ragSettled(@, reply)]
    /\ UNCHANGED <<btnDisabled, lastMessage, clicks, peer, stealth, cloud>>

\* the fetch of the adapter settled with reply
BackendSettles(i, reply) ==
    /\ requests[i].pc = "backend"
    /\ requests' = [requests EXCEPT ![i] = backendSettled(@, reply)]
    /\ UNCHANGED <<btnDisabled, lastMessage, clicks, peer, stealth, cloud>>

\* the callback of page to runs: the button it closes over is enabled, and
\* message is added to the history of the widget in the document
Callback(to, button, message) ==
    IF to = 1
    THEN /\ btnDisabled' = (IF button = triggerBtn THEN FALSE ELSE btnDisabled)
         /\ lastMessage' = (IF widget # "absent" THEN message ELSE lastMessage)
         /\ UNCHANGED peer
    ELSE /\ peer' = [peer EXCEPT !.disabled = FALSE, !.message = message]
         /\ UNCHANGED <<btnDisabled, lastMessage>>

\* the callback of sendMessage runs with the first response handed over
ResponseCallback(i) ==
    /\ requests[i].pc \in {"returned", "faulted"}
    /\ requests[i].sent # <<>>
    /\ Callback(recipient(requests[i]), requests[i].button,
                messageOf(requests[i].sent[1]))
    /\ requests' = Remove(requests, i)
    /\ UNCHANGED <<clicks, stealth, cloud>>

\* the message port closed without a response: the callback runs with
\* chrome.runtime.lastError set
PortClosed(i) ==
    /\ requests[i].pc = "faulted"
    /\ requests[i].sent = <<>>
    /\ Callback(recipient(requests[i]), requests[i].button, PleaseRefresh)
    /\ requests' = Remove(requests, i)
    /\ UNCHANGED <<clicks, stealth, cloud>>

\* the handlers of the worker and of the callback leave the grabber alone
Grabber == <<buffer, isListening, captionNode, probing, now, caption,
             op, frag, path, repeated, ret>>

(***************************************************************************)
(* Merge scenario: overlapping partial captions                            *)
(***************************************************************************)
s_ab == <<"a","b">>
s_abc == <<"a","b","c">>
s_xab == <<"x","a","b">>
s_cd == <<"c","d">>
s_abc_padded == <<" ","a","b","c","\n">>
s_a == <<"a">>

MergeFragments == {s_ab, s_abc, s_xab, s_cd, s_abc_padded, s_a}

Next ==
    \/ Locate
    \/ \E texts \in Batches(MergeFragments, MaxBatch) :
        MutationCallback(texts) /\ Len(buffer') <= MaxEntries /\ UNCHANGED <<caption, page>>
    \/ \E texts \in Batches(MergeFragments, MaxBatch) :
        PollTick(texts) /\ Len(buffer') <= MaxEntries /\ UNCHANGED <<caption, page>>
    \/ Tick(1, MaxClock) /\ UNCHANGED <<caption, page>>

Spec == Init /\ [][Next]_vars

texts(buf) == [i \in 1..Len(buf) |-> buf[i].text]

\* the fragment passes the length and noise filters of processText
Accepted(f) == Len(trim(f)) >= 2 /\ ~isUIText(f)

\* a handler run that makes exactly one processText call, on fragment f
\* (frag' is named first so that the handler is evaluated for that f only)
OneCall(f) ==
    \/ frag' = f /\ MutationCallback(<<f>>)
    \/ Len(trim(f)) > PollMinLength /\ frag' = trim(f) /\ PollTick(<<f>>)

\* C4: an accepted fragment that starts with or contains the last entry's
\* text overwrites that entry's text, sets its timestamp to the current time
\* and leaves every other entry and the length as they were.
C4_IncrementalUpdate ==
    [][\A f \in MergeFragments :
        (/\ buffer # <<>>
         /\ Accepted(f)
         /\ \/ startsWith(trim(f), buffer[Len(buffer)].text)
            \/ includes(trim(f), buffer[Len(buffer)].text)
         /\ OneCall(f))
        => buffer' = [buffer EXCEPT
                        ![Len(buffer)] = [text |-> trim(f), time |-> now]]
      ]_vars

\* the second of two entries was overwritten by a text that contains it,
\* after the clock had advanced
C4_Witness ==
    /\ path = "update"
    /\ frag = s_xab
    /\ Len(buffer) = 2
    /\ buffer[2] = [text |-> s_xab, time |-> now]
    /\ buffer[1].time < now

\* C5: a fragment that is a proper substring of the last entry's text leaves
\* the whole buffer as it was.
C5_StalePartialDiscarded ==
    [][\A f \in MergeFragments :
        (/\ buffer # <<>>
         /\ f # buffer[Len(buffer)].text
         /\ includes(buffer[Len(buffer)].text, f)
         /\ OneCall(f))
        => buffer' = buffer
      ]_vars

\* an accepted proper substring of the last entry arrived after the entry
\* was written
C5_Witness ==
    /\ path = "stale"
    /\ buffer # <<>>
    /\ frag = s_ab
    /\ buffer[Len(buffer)].text = s_xab
    /\ buffer[Len(buffer)].time < now

\* C6: the second of two consecutive processText calls on the same accepted
\* fragment adds no entry: the length and the texts stay as the first call
\* left them.
C6_DuplicateSuppression ==
    [][\A f \in MergeFragments :
        (/\ path # "none"
         /\ Accepted(f)
         /\ \/ frag = f /\ frag' = f /\ MutationCallback(<<f>>)
            \/ /\ frag = trim(f) /\ frag' = trim(f)
               /\ Len(trim(f)) > PollMinLength
               /\ PollTick(<<f>>))
        => /\ Len(buffer') = Len(buffer)
           /\ texts(buffer') = texts(buffer)
      ]_vars

\* the same accepted fragment was fed twice in a row
C6_Witness ==
    /\ repeated
    /\ Accepted(frag)
    /\ path \in {"update", "stale"}
    /\ buffer # <<>>

\* C7: a fragment equal to the last entry's text leaves the buffer as it
\* was, the last entry's timestamp included.
C7_DuplicateKeepsTimestamp ==
    [][\A f \in MergeFragments :
        (/\ buffer # <<>>
         /\ f = buffer[Len(buffer)].text
         /\ OneCall(f))
        => buffer' = buffer
      ]_vars

(***************************************************************************)
(* Fifo scenario: a speaker whose caption line grows, is finalized and is  *)
(* followed by the next line                                               *)
(***************************************************************************)
\* line n while it is being spoken
Partial(n) == <<"u", DigitChars[(n \div 10) + 1], DigitChars[(n % 10) + 1]>>

\* line n once finalized
Final(n) == Partial(n) \o <<"!">>

CaptionText(c) == IF c.done THEN Final(c.n) ELSE Partial(c.n)

\* what the line can turn into: finalized, or followed by the next line
NextCaptions(c) ==
    IF ~c.done THEN {[n |-> c.n, done |-> TRUE]}
    ELSE IF c.n < MaxUtterances THEN {[n |-> c.n + 1, done |-> d] : d \in BOOLEAN}
    ELSE {}

\* texts of the current line that can be observed again
Reobserved(c) ==
    IF c.n = 0 THEN {} ELSE IF c.done THEN {Partial(c.n), Final(c.n)} ELSE {Partial(c.n)}

NextFifo ==
    \/ Locate
    \/ \E c \in NextCaptions(caption) :
        caption' = c /\ MutationCallback(<<CaptionText(c)>>) /\ UNCHANGED page
    \/ \E text \in Reobserved(caption) :
        MutationCallback(<<text>>) /\ UNCHANGED <<caption, page>>
    \/ caption.n > 0 /\ PollTick(<<CaptionText(caption)>>) /\ UNCHANGED <<caption, page>>
    \/ Tick(1, FifoMaxClock) /\ UNCHANGED <<caption, page>>

SpecFifo == Init /\ [][NextFifo]_vars

\* C1: the transcript buffer never holds more than 25 entries, whatever the
\* ingestion handlers have fed to processText.
C1_BufferAtMost25 == Len(buffer) <= 25

\* the buffer is full and older lines have been evicted
C1_Witness == Len(buffer) = 25 /\ caption.n > 25 /\ path = "evict"

\* C2: no two adjacent buffer entries have identical text.
C2_NoAdjacentDuplicates ==
    \A i \in 1..(Len(buffer) - 1) : buffer[i].text # buffer[i + 1].text

\* the last entry of a full buffer that has evicted was updated in place
C2_Witness == Len(buffer) = 25 /\ caption.n > 25 /\ path = "update"

\* C8: once more than 25 lines have been spoken, the buffer holds exactly the
\* most recent 25 of them, oldest first.
C8_FifoMostRecent25 ==
    caption.n > 25 =>
        texts(buffer) = [i \in 1..25 |->
                            IF i < 25 THEN Final(caption.n - 25 + i)
                            ELSE CaptionText(caption)]

\* 27 lines were ingested, so two were evicted
C8_Witness == caption.n >= 27 /\ Len(buffer) = 25 /\ buffer[1].text = Final(caption.n - 24)

(***************************************************************************)
(* Noise scenario: the page's interface texts among the captions           *)
(***************************************************************************)
n_clock == <<"1","0",":","4","5">>
n_clock1 == <<"9",":","0","5">>
n_AM == <<"A","M">>
n_pm == <<"p","m">>
n_Today == <<"T","o","d","a","y">>
n_TurnOn == <<"T","u","r","n"," ","o","n">>
n_Mute == <<"M","u","t","e">>
n_JK == <<"J","K">>
n_ABC == <<"A","B","C">>
n_Live == <<"L","i","v","e"," ","c","a","p","t","i","o","n","s">>
n_dots == <<".",".",".">>
s_okay == <<"o","k","a","y">>
s_hey == <<"h","e","y">>
s_empty == <<>>

\* one sample or more of each pattern
NoiseSamples == {n_clock, n_clock1, n_AM, n_pm, n_Today, n_TurnOn, n_Mute,
                 n_JK, n_ABC, n_Live, n_dots}

NoiseFragments == NoiseSamples \cup {s_okay, s_hey, s_empty}

NextNoise ==
    \/ Locate
    \/ \E f \in NoiseFragments :
        MutationCallback(<<f>>) /\ Len(buffer') <= MaxEntries /\ UNCHANGED <<caption, page>>
    \/ \E f \in NoiseFragments :
        PollTick(<<f>>) /\ Len(buffer') <= MaxEntries /\ UNCHANGED <<caption, page>>
    \/ Tick(1, MaxClock) /\ UNCHANGED <<caption, page>>

SpecNoise == Init /\ [][NextNoise]_vars

\* C3: a fragment that matches a UI-noise pattern leaves the buffer exactly
\* as it was, through either ingestion handler and whatever the buffer holds.
C3_NoiseLeavesBuffer ==
    [][\A f \in NoiseSamples :
        ((frag' = f /\ MutationCallback(<<f>>)) \/ PollTick(<<f>>))
            => buffer' = buffer
      ]_vars

\* a lower-case "pm" reached processText while the buffer held captions
C3_Witness ==
    /\ path = "noise"
    /\ frag = n_pm
    /\ Len(buffer) = 2
    /\ buffer[2].time < now

(***************************************************************************)
(* Window scenario: reads of the recent window as entries age              *)
(***************************************************************************)
WindowFragments == {s_abc, s_cd}

\* the instants the clock is read at
WindowClock == {0, 1, WindowMs - 1, WindowMs, WindowMs + 1}

NextWindow ==
    \/ Locate
    \/ \E f \in WindowFragments :
        MutationCallback(<<f>>) /\ Len(buffer') <= MaxEntries /\ UNCHANGED <<caption, page>>
    \/ \E f \in WindowFragments :
        PollTick(<<f>>) /\ Len(buffer') <= MaxEntries /\ UNCHANGED <<caption, page>>
    \/ \E v \in WindowClock : v > now /\ Tick(v - now, v) /\ UNCHANGED <<caption, page>>
    \/ GetRecentCaptions /\ UNCHANGED <<caption, page>>

SpecWindow == Init /\ [][NextWindow]_vars

\* entry i is younger than 90000 ms
InWindow(i) == now - buffer[i].time < 90000

\* characters of the returned string that precede the text of entry i
RECURSIVE OffsetOf(_)
OffsetOf(i) ==
    IF i = 1 THEN 0
    ELSE OffsetOf(i - 1)
            + (IF InWindow(i - 1) THEN Len(buffer[i - 1].text) + 1 ELSE 0)

\* C9: getRecentCaptions returns the texts of exactly the entries younger
\* than 90000 ms, in buffer order, separated by single newlines; an entry
\* exactly 90000 ms old is left out.
C9_WindowIsStrict ==
    op = "getRecentCaptions" =>
        /\ Len(ret) = (IF \E i \in 1..Len(buffer) : InWindow(i)
                       THEN OffsetOf(Len(buffer) + 1) - 1 ELSE 0)
        /\ \A i \in 1..Len(buffer) : InWindow(i) =>
            /\ SubSeq(ret, OffsetOf(i) + 1, OffsetOf(i) + Len(buffer[i].text))
                    = buffer[i].text
            /\ OffsetOf(i) > 0 => ret[OffsetOf(i)] = "\n"

\* a read that left out an entry exactly 90000 ms old and kept a younger one
C9_Witness ==
    /\ op = "getRecentCaptions"
    /\ Len(buffer) = 2
    /\ now - buffer[1].time = 90000
    /\ now - buffer[2].time = 89999
    /\ ret = buffer[2].text

\* C10: a getRecentCaptions call leaves the buffer and the listening flag as
\* they were, also when entries have aged out of the window.
C10_ReadIsPure ==
    [][GetRecentCaptions => (buffer' = buffer /\ isListening' = isListening)]_vars

\* a read was served while the buffer held an entry older than the window
C10_Witness ==
    /\ op = "getRecentCaptions"
    /\ isListening
    /\ Len(buffer) = 2
    /\ now - buffer[1].time > 90000
    /\ ret = buffer[2].text

(***************************************************************************)
(* Pipeline scenario: trigger, settings, retrieval, backend, response      *)
(***************************************************************************)
ProviderNames == {"pollinations", "openai", "gemini", "openrouter", "groq", "claude"}

NoKeys == [p \in ProviderNames |-> ""]

Keys(names) == [p \in ProviderNames |-> IF p \in names THEN "sk-1" ELSE ""]

\* what the storage read resolves with
StoredSettings ==
    { [provider |-> "undefined", apiKeys |-> NoKeys,
       ragEnabled |-> "undefined", tone |-> "undefined"],
      [provider |-> "pollinations", apiKeys |-> NoKeys,
       ragEnabled |-> "false", tone |-> "Direct"],
      [provider |-> "pollinations", apiKeys |-> NoKeys,
       ragEnabled |-> "false", tone |-> "Friendly"],
      [provider |-> "openai", apiKeys |-> Keys({"openai"}),
       ragEnabled |-> "true", tone |-> "undefined"],
      [provider |-> "openai", apiKeys |-> Keys({"gemini"}),
       ragEnabled |-> "true", tone |-> "undefined"],
      [provider |-> "gemini", apiKeys |-> Keys({"gemini"}),
       ragEnabled |-> "undefined", tone |-> "undefined"],
      [provider |-> "openrouter", apiKeys |-> Keys({"openrouter"}),
       ragEnabled |-> "false", tone |-> "undefined"],
      [provider |-> "groq", apiKeys |-> Keys({"groq"}),
       ragEnabled |-> "true", tone |-> "undefined"],
      [provider |-> "groq", apiKeys |-> NoKeys,
       ragEnabled |-> "false", tone |-> "undefined"],
      [provider |-> "claude", apiKeys |-> Keys({"claude"}),
       ragEnabled |-> "true", tone |-> "undefined"] }

\* the k-th result of a reply, with similarity sim hundredths
Result(k, sim) ==
    [title |-> <<"doc1", "doc2", "doc3", "doc4", "doc5">>[k],
     content |-> IF sim >= 80 THEN "high" ELSE IF sim >= 50 THEN "edge" ELSE "low",
     similarity |-> sim]

SearchReply(rejects, ok, parsable, hasResults, results) ==
    [rejects |-> rejects, ok |-> ok, parsable |-> parsable,
     hasResults |-> hasResults, results |-> results]

\* how the retrieval call can settle
SearchReplies ==
    { SearchReply(TRUE, FALSE, FALSE, FALSE, <<>>),
      SearchReply(FALSE, FALSE, TRUE, FALSE, <<>>),
      SearchReply(FALSE, TRUE, FALSE, FALSE, <<>>),
      SearchReply(FALSE, TRUE, TRUE, FALSE, <<>>),
      SearchReply(FALSE, TRUE, TRUE, TRUE, <<>>),
      SearchReply(FALSE, TRUE, TRUE, TRUE, <<Result(1, 49)>>),
      SearchReply(FALSE, TRUE, TRUE, TRUE, <<Result(1, 80)>>) }

BodyKinds == {"answer", "emptyAnswer", "nullAnswer", "absentAnswer", "noChoices",
              "errorObject", "errorString", "unparsable"}

\* how the backend call can settle
BackendReplies ==
    {[rejects |-> TRUE, ok |-> FALSE, body |-> "unparsable"]}
    \cup {[rejects |-> FALSE, ok |-> TRUE, body |-> b] : b \in BodyKinds}
    \cup {[rejects |-> FALSE, ok |-> FALSE, body |-> b] : b \in {"errorObject", "unparsable"}}

PipelineClock == {WindowMs}

Worker(settings, searches, replies) ==
    \/ \E i \in 1..Len(requests), s \in settings :
        StorageResolves(i, s) /\ UNCHANGED Grabber
    \/ \E i \in 1..Len(requests) : StorageRejects(i) /\ UNCHANGED Grabber
    \/ \E i \in 1..Len(requests), reply \in searches :
        RagSettles(i, reply) /\ UNCHANGED Grabber
    \/ \E i \in 1..Len(requests), reply \in replies :
        BackendSettles(i, reply) /\ UNCHANGED Grabber
    \/ \E i \in 1..Len(requests) : ResponseCallback(i) /\ UNCHANGED Grabber
    \/ \E i \in 1..Len(requests) : PortClosed(i) /\ UNCHANGED Grabber

NextPipeline ==
    \/ Locate
    \/ MutationCallback(<<s_abc>>) /\ UNCHANGED <<caption, page>>
    \/ \E v \in PipelineClock : v > now /\ Tick(v - now, v) /\ UNCHANGED <<caption, page>>
    \/ TriggerClick /\ UNCHANGED caption
    \/ Worker(StoredSettings, SearchReplies, BackendReplies)

SpecPipeline == Init /\ [][NextPipeline]_vars

\* C11: a click on Generate Answer whose recent window, trimmed, is shorter
\* than two characters shows the insufficient-input error and starts nothing:
\* no GENERATE_RESPONSE message, no retrieval call, no backend call.
C11_ShortWindowStopsAtSidebar ==
    [][(TriggerClick /\ Len(trim(ret')) < 2)
          => (lastMessage' = InsufficientInput /\ requests' = requests
              /\ btnDisabled' = btnDisabled)
      ]_vars

\* the click came after every buffered entry had aged out of the window
C11_Witness ==
    /\ buffer # <<>>
    /\ now - buffer[Len(buffer)].time >= WindowMs
    /\ op = "getRecentCaptions"
    /\ ret = <<>>
    /\ lastMessage = InsufficientInput
    /\ requests = <<>>

\* a provider that requires a key, resolved without one
KeyMissing(r) ==
    /\ r.pc # "storage"
    /\ r.provider \in {"openai", "gemini", "openrouter", "groq"}
    /\ r.apiKey = ""

\* C12: when the selected provider requires a credential and none is stored
\* for it, the handler answers with the missing-credential error and has made
\* no outbound call: no retrieval fetch, no adapter.
C12_MissingKeyNoCalls ==
    \A i \in 1..Len(requests) :
        KeyMissing(requests[i]) =>
            /\ requests[i].pc = "returned"
            /\ Len(requests[i].sent) = 1
            /\ requests[i].sent[1].text = Absent
            /\ requests[i].sent[1].error.t = "string"
            /\ requests[i].sent[1].error.v[1] = "No API Key found for "
            /\ requests[i].ragCalls = 0
            /\ requests[i].backendCalls = 0
            /\ requests[i].adapter = "none"

\* the stored key belongs to another provider than the selected one
C12_Witness ==
    \E i \in 1..Len(requests) :
        /\ KeyMissing(requests[i])
        /\ requests[i].provider = "openai"
        /\ requests[i].ragEnabled
        /\ requests[i].sent # <<>>

\* the handler of request r ran to its end
Ended(r) == r.pc \in {"returned", "faulted"}

\* C13: whatever the stored settings and however the storage read, the
\* retrieval call and the backend call settle, a handler that ran to its end
\* has called sendResponse and ended by no unhandled fault.
C13_EveryRequestAnswered ==
    \A i \in 1..Len(requests) :
        Ended(requests[i]) => (requests[i].sent # <<>> /\ requests[i].pc = "returned")

\* C14: sendResponse is called at most once for each request.
C14_AtMostOneResponse ==
    \A i \in 1..Len(requests) : Len(requests[i].sent) <= 1

\* the adapter faulted and the catch block answered
C14_Witness ==
    \E i \in 1..Len(requests) :
        /\ requests[i].pc = "returned"
        /\ requests[i].backendCalls = 1
        /\ Len(requests[i].sent) = 1
        /\ requests[i].sent[1].error.t = "string"
        /\ requests[i].sent[1].error.v[1] = "Network Error: "

\* the retrieval call failed: rejected fetch, non-2xx status, body that is
\* not JSON, or JSON without a results array
RetrievalFailed(reply) ==
    reply.rejects \/ ~reply.ok \/ ~reply.parsable \/ ~reply.hasResults

\* C15: a failed retrieval call counts as empty context: the handler goes on
\* to compose the prompt without a knowledge-base block and to call the
\* selected backend, and has answered nothing yet.
C15_RetrievalFailureIsEmptyContext ==
    [][\A i \in 1..Len(requests) :
        requests[i].pc = "rag" =>
            \A reply \in {s \in SearchReplies : RetrievalFailed(s)} :
                RagSettles(i, reply) =>
                    /\ requests'[i].ragContext = <<>>
                    /\ requests'[i].pc = "backend"
                    /\ requests'[i].backendCalls = 1
                    /\ requests'[i].adapter = adapterOf(requests[i].provider)
                    /\ requests'[i].systemPrompt = composePrompt(<<>>, requests[i].payload)
                    /\ requests'[i].sent = <<>>
      ]_vars

\* after a retrieval call that ended in the catch block, the backend gave
\* its answer and the handler delivered it
C15_Witness ==
    \E i \in 1..Len(requests) :
        /\ requests[i].ragPath = "caught"
        /\ requests[i].ragCalls = 1
        /\ requests[i].pc = "returned"
        /\ requests[i].sent = <<TextResult(Str(AnswerText))>>

(***************************************************************************)
(* Retrieval scenario: replies of the retrieval service with ranked results *)
(***************************************************************************)
Similarities == {49, 50, 80}

\* the result lists of at most MaxResults results, in the service's order
RankedResults ==
    UNION {{[k \in 1..n |-> Result(k, sims[k])] : sims \in [1..n -> Similarities]}
              : n \in 0..MaxResults}

RankedReplies == {SearchReply(FALSE, TRUE, TRUE, TRUE, results) : results \in RankedResults}

DefaultSettings ==
    {[provider |-> "undefined", apiKeys |-> NoKeys,
      ragEnabled |-> "undefined", tone |-> "undefined"]}

AnswerReplies == {[rejects |-> FALSE, ok |-> TRUE, body |-> "answer"]}

NextRag ==
    \/ Locate
    \/ MutationCallback(<<s_abc>>) /\ UNCHANGED <<caption, page>>
    \/ TriggerClick /\ UNCHANGED caption
    \/ Worker(DefaultSettings, RankedReplies, AnswerReplies)

SpecRag == Init /\ [][NextRag]_vars

\* C16: a returned snippet is part of the knowledge-base context exactly when
\* its similarity is at least 0.5; a snippet at 0.5 is part of it.
C16_ThresholdInclusive ==
    [][\A i \in 1..Len(requests) :
        requests[i].pc = "rag" =>
            \A reply \in RankedReplies :
                RagSettles(i, reply) =>
                    \A k \in 1..Len(reply.results) :
                        includes(requests'[i].ragContext, snippet(reply.results[k]))
                            <=> reply.results[k].similarity >= 50
      ]_vars

\* of two results, the first at 0.49 was left out and the second at 0.5 kept
C16_Witness ==
    \E i \in 1..Len(requests) :
        /\ requests[i].ragPath = "joined"
        /\ requests[i].ragContext = snippet(Result(2, 50))

\* the snippets in a knowledge-base context
snippetsIn(context) == {k \in 1..Len(context) : context[k] = "["}

\* C17: the knowledge-base context holds at most 3 snippets, however many
\* results above the threshold the retrieval service returns.
C17_AtMostTopK ==
    \A i \in 1..Len(requests) : Cardinality(snippetsIn(requests[i].ragContext)) <= 3

\* C18: a delivered result carries usedRag exactly when it is a text result
\* and the knowledge-base context was non-empty.
C18_UsedRagIffTextAndContext ==
    \A i \in 1..Len(requests) :
        \A k \in 1..Len(requests[i].sent) :
            requests[i].sent[k].usedRag
                <=> (requests[i].sent[k].text # Absent /\ requests[i].ragContext # <<>>)

\* C19: every delivered result is either a text result whose text is a
\* string or an error result whose error is a string, never both or neither.
C19_ExactlyOneShape ==
    \A i \in 1..Len(requests) :
        \A k \in 1..Len(requests[i].sent) :
            \/ (requests[i].sent[k].text.t = "string" /\ requests[i].sent[k].error = Absent)
            \/ (requests[i].sent[k].error.t = "string" /\ requests[i].sent[k].text = Absent)

\* C20: when the fetch of the selected adapter rejects, the handler catches
\* the fault and answers with the network-error wrapper around its detail.
C20_RejectedFetchIsNetworkError ==
    [][\A i \in 1..Len(requests) :
        requests[i].pc = "backend" =>
            \A reply \in {b \in BackendReplies : b.rejects} :
                BackendSettles(i, reply) =>
                    /\ requests'[i].pc = "returned"
                    /\ requests'[i].sent =
                           <<ErrorResult(<<"Network Error: ">> \o RejectDetail)>>
      ]_vars

\* the fetch of the Groq adapter rejected and the handler answered
C20_Witness ==
    \E i \in 1..Len(requests) :
        /\ requests[i].adapter = "callGroq"
        /\ requests[i].pc = "returned"
        /\ requests[i].sent = <<ErrorResult(<<"Network Error: ">> \o RejectDetail)>>

\* C21: the network-error wrapper is delivered only when the fetch of the
\* adapter rejected; a reply that arrived is never reported as a network
\* error.
C21_NetworkErrorOnlyForTransport ==
    \A i \in 1..Len(requests) :
        \A k \in 1..Len(requests[i].sent) :
            (/\ requests[i].sent[k].error.t = "string"
             /\ requests[i].sent[k].error.v # <<>>
             /\ requests[i].sent[k].error.v[1] = "Network Error: ")
                => requests[i].sent[k].error.v = <<"Network Error: ">> \o RejectDetail

\* replies that arrived with a body that holds no error and no answer text
NoAnswerReplies ==
    {b \in BackendReplies :
        ~b.rejects /\ b.body \in {"noChoices", "absentAnswer", "nullAnswer", "emptyAnswer"}}

\* C22: a Gemini reply without error and without candidate text, and an
\* OpenRouter reply without error and without choices, are answered with the
\* adapter's own "No response generated" error, not with a text result and
\* not by a fault.
C22_NoResponseGenerated ==
    [][\A i \in 1..Len(requests) :
        (requests[i].pc = "backend"
         /\ requests[i].adapter \in {"callGemini", "callOpenRouter"}) =>
            \A reply \in NoAnswerReplies :
                BackendSettles(i, reply) =>
                    /\ requests'[i].pc = "returned"
                    /\ requests'[i].sent =
                        <<ErrorResult(
                            IF requests[i].adapter = "callGemini"
                            THEN <<"Gemini: No response generated">>
                            ELSE <<"OpenRouter: No response generated">>)>>
      ]_vars

\* the Gemini adapter answered a reply without candidates
C22_Witness ==
    \E i \in 1..Len(requests) :
        /\ requests[i].adapter = "callGemini"
        /\ requests[i].pc = "returned"
        /\ requests[i].sent = <<ErrorResult(<<"Gemini: No response generated">>)>>

\* C23: a handler makes at most one retrieval call and at most one backend
\* call; once the backend call has settled the handler has answered and
\* returned, without a further call.
C23_NoRetries ==
    \A i \in 1..Len(requests) :
        /\ requests[i].ragCalls <= 1
        /\ requests[i].backendCalls <= 1
        /\ requests[i].pc \in {"storage", "rag"} => requests[i].backendCalls = 0
        /\ requests[i].pc = "backend" =>
               (requests[i].backendCalls = 1 /\ requests[i].sent = <<>>)
        /\ (requests[i].pc = "returned" /\ requests[i].backendCalls = 1) =>
               Len(requests[i].sent) = 1

\* after a failed retrieval call the backend call failed as well and the
\* handler answered with the backend's error
C23_Witness ==
    \E i \in 1..Len(requests) :
        /\ requests[i].pc = "returned"
        /\ requests[i].ragCalls = 1
        /\ requests[i].ragPath = "caught"
        /\ requests[i].backendCalls = 1
        /\ requests[i].sent = <<ErrorResult(<<"Groq Error: ">> \o ErrorDetail)>>

\* C26: the locator probes until a strategy matches; from the first match
\* on the interval is cleared, no probe runs again, the caption node and the
\* listening flag stay as they are; as long as nothing matched, the grabber
\* does not listen and its buffer is empty.
C26_LocatorStopsOnFirstMatch ==
    [][/\ captionNode # "null" =>
            (/\ ~probing /\ isListening
             /\ captionNode' = captionNode /\ ~probing' /\ isListening'
             /\ op' # "probe" /\ op' # "init")
       /\ captionNode = "null" => (~isListening /\ buffer = <<>>)
       /\ (probing /\ captionNode' = "null") => probing'
      ]_vars

\* captions were taken in after the match, with the interval cleared
C26_Witness ==
    /\ captionNode = "node"
    /\ isListening
    /\ ~probing
    /\ buffer # <<>>

\* two stored settings that differ in the tone only
DifferInToneOnly(s1, s2) ==
    /\ s1.tone # s2.tone
    /\ [s1 EXCEPT !.tone = s2.tone] = s2

\* C27: the prompt sent to the backend depends on the stored tone: had the
\* settings differed in the tone only, the handler would have composed a
\* different prompt.
C27_ToneChangesPrompt ==
    [][\A i \in 1..Len(requests) :
        requests[i].pc = "storage" =>
            \A s1 \in StoredSettings, s2 \in StoredSettings :
                (DifferInToneOnly(s1, s2) /\ StorageResolves(i, s1)
                 /\ requests'[i].pc = "backend")
                    => resolveSettings(requests[i], s2).systemPrompt
                           # requests'[i].systemPrompt
      ]_vars

\* the place of the first piece equal to piece in s, 0 when there is none
indexOf(s, piece) ==
    IF \E k \in 1..Len(s) : s[k] = piece
    THEN CHOOSE k \in 1..Len(s) : s[k] = piece /\ \A j \in 1..(k - 1) : s[j] # piece
    ELSE 0

\* C28: the prompt holds the knowledge-base block exactly when the context
\* is not empty; the block, when there is one, comes before the transcript
\* window, and the window before the closing instruction.
C28_KnowledgeBlockIffContext ==
    \A i \in 1..Len(requests) :
        requests[i].backendCalls = 1 =>
            LET p == requests[i].systemPrompt
                context == requests[i].ragContext
                window == requests[i].payload
                kb == indexOf(p, "KNOWLEDGE BASE CONTEXT: ")
                kbEnd == indexOf(p, " END OF KNOWLEDGE BASE")
                ask == indexOf(p, "INTERVIEWER JUST ASKED: ")
                closing == indexOf(p, "Generate the IDEAL spoken answer now.")
            IN  /\ (kb > 0) <=> (context # <<>>)
                /\ (kbEnd > 0) <=> (context # <<>>)
                /\ kb > 0 =>
                       (/\ SubSeq(p, kb + 1, kbEnd - 1) = context
                        /\ kbEnd < ask)
                /\ ask > 0
                /\ SubSeq(p, ask + 1, closing - 1) = window
                /\ closing = Len(p)

\* a prompt with one snippet in its knowledge-base block went to the backend
C28_Witness ==
    \E i \in 1..Len(requests) :
        /\ requests[i].pc = "backend"
        /\ requests[i].ragContext = snippet(Result(1, 80))
        /\ includes(requests[i].systemPrompt, requests[i].ragContext)

\* C29: settings without a provider select Pollinations and need no key;
\* settings without ragEnabled start the retrieval call; with ragEnabled
\* false the handler makes no retrieval call and no result carries usedRag.
C29_Defaults ==
    [][/\ \A i \in 1..Len(requests) :
            requests[i].pc = "storage" =>
                \A s \in StoredSettings :
                    StorageResolves(i, s) =>
                        /\ s.provider = "undefined" =>
                               (/\ requests'[i].provider = "pollinations"
                                /\ requests'[i].sent = <<>>
                                /\ requests'[i].pc \in {"rag", "backend"})
                        /\ (s.ragEnabled = "undefined" /\ requests'[i].sent = <<>>
                            /\ requests'[i].pc # "faulted") =>
                               (/\ requests'[i].pc = "rag"
                                /\ requests'[i].ragCalls = 1)
                        /\ s.ragEnabled = "false" =>
                               (/\ ~requests'[i].ragEnabled
                                /\ requests'[i].pc # "rag")
       /\ \A i \in 1..Len(requests') :
            (requests'[i].pc # "storage" /\ ~requests'[i].ragEnabled) =>
                /\ requests'[i].ragCalls = 0
                /\ \A k \in 1..Len(requests'[i].sent) : ~requests'[i].sent[k].usedRag
      ]_vars

\* with nothing stored, the retrieval call was made and Pollinations answered
C29_Witness ==
    \E i \in 1..Len(requests) :
        /\ requests[i].provider = "pollinations"
        /\ requests[i].apiKey = ""
        /\ requests[i].tone = "undefined"
        /\ requests[i].ragEnabled
        /\ requests[i].ragCalls = 1
        /\ requests[i].adapter = "callPollinations"
        /\ requests[i].pc = "returned"
        /\ requests[i].sent[1].text = Str(AnswerText)

(***************************************************************************)
(* Concurrent scenario: the sidebars of two tabs trigger the same worker   *)
(***************************************************************************)
\* the captions the grabber of the second tab holds
PeerCaptions == s_cd

ConcurrentSearches ==
    { SearchReply(TRUE, FALSE, FALSE, FALSE, <<>>),
      SearchReply(FALSE, TRUE, TRUE, TRUE, <<Result(1, 80)>>) }

ConcurrentReplies ==
    { [rejects |-> TRUE, ok |-> FALSE, body |-> "unparsable"],
      [rejects |-> FALSE, ok |-> TRUE, body |-> "answer"] }

NextConcurrent ==
    \/ Locate
    \/ MutationCallback(<<s_abc>>) /\ UNCHANGED <<caption, page>>
    \/ TriggerClick /\ UNCHANGED caption
    \/ PeerClick(PeerCaptions) /\ UNCHANGED Grabber
    \/ Worker(DefaultSettings, ConcurrentSearches, ConcurrentReplies)

SpecConcurrent == Init /\ [][NextConcurrent]_vars

\* C24: requests in flight together are independent: a step of one leaves
\* the other as it was, each prompt is composed from the captions its own
\* tab sent, and each response reaches the callback of the tab that sent the
\* request and no other; either request may finish first.
C24_NoCrossDelivery ==
    [][/\ \A i \in 1..Len(requests) :
            ResponseCallback(i) =>
                IF requests[i].sender = 1
                THEN /\ lastMessage' = messageOf(requests[i].sent[1])
                     /\ ~btnDisabled'
                     /\ peer' = peer
                ELSE /\ peer'.message = messageOf(requests[i].sent[1])
                     /\ ~peer'.disabled
                     /\ lastMessage' = lastMessage
                     /\ btnDisabled' = btnDisabled
       /\ \A i \in 1..Len(requests') :
            requests'[i].backendCalls = 1 =>
                requests'[i].systemPrompt =
                    composePrompt(requests'[i].ragContext,
                                  IF requests'[i].sender = 1 THEN s_abc ELSE PeerCaptions)
       /\ Len(requests') = Len(requests) =>
            \A i \in 1..Len(requests), j \in 1..Len(requests) :
                (requests'[i] # requests[i] /\ j # i) => requests'[j] = requests[j]
      ]_vars

\* the request of the second tab arrived later and was answered first, from
\* its own captions, while the first tab's request waits for its backend
C24_Witness ==
    /\ Len(requests) = 2
    /\ requests[1].sender = 1
    /\ requests[1].pc = "backend"
    /\ requests[2].sender = 2
    /\ requests[2].pc = "returned"
    /\ requests[2].sent[1].text = Str(AnswerText)
    /\ includes(requests[2].systemPrompt, PeerCaptions)
    /\ ~includes(requests[2].systemPrompt, s_abc)

(***************************************************************************)
(* Snapshot scenario: captions arrive while a request is in flight         *)
(***************************************************************************)
SnapshotFragments == {s_abc, s_xab}

NextSnapshot ==
    \/ Locate
    \/ \E f \in SnapshotFragments :
        MutationCallback(<<f>>) /\ Len(buffer') <= MaxEntries /\ UNCHANGED <<caption, page>>
    \/ \E f \in SnapshotFragments :
        PollTick(<<f>>) /\ Len(buffer') <= MaxEntries /\ UNCHANGED <<caption, page>>
    \/ TriggerClick /\ UNCHANGED caption
    \/ Worker(DefaultSettings, ConcurrentSearches, ConcurrentReplies)

SpecSnapshot == Init /\ [][NextSnapshot]_vars

\* a request waits for its retrieval or backend call
Suspended(r) == r.pc \in {"rag", "backend"}

\* C25: while a request is suspended on its retrieval or backend call, a
\* mutation notification or a poll tick is processed as at any other time,
\* and the captions the request carries stay those read when the button was
\* clicked: the prompt is composed from them.
C25_IngestionDuringRequest ==
    [][/\ (\E i \in 1..Len(requests) : Suspended(requests[i])) =>
            \A f \in SnapshotFragments :
                (MutationCallback(<<f>>) \/ PollTick(<<f>>))
                    => buffer' = processText(buffer, f, now).buffer
       /\ \A i \in 1..Len(requests) :
            (Suspended(requests[i]) /\ Len(requests') = Len(requests)) =>
                /\ requests'[i].payload = requests[i].payload
                /\ requests'[i].backendCalls = 1 =>
                       requests'[i].systemPrompt =
                           composePrompt(requests'[i].ragContext, requests[i].payload)
      ]_vars

\* a new caption was appended while the request waited for its backend; the
\* recent window now differs from the captions the request carries
C25_Witness ==
    /\ Len(requests) = 1
    /\ requests[1].pc = "backend"
    /\ op \in {"mutation", "poll"}
    /\ path = "append"
    /\ Len(buffer) = 2
    /\ requests[1].payload = buffer[1].text
    /\ includes(requests[1].systemPrompt, buffer[1].text)
    /\ ~includes(requests[1].systemPrompt, buffer[2].text)

(***************************************************************************)
(* Poll scenario: the 1 s interval re-reads the visible caption elements   *)
(***************************************************************************)
PollFragments == {s_abc, s_xab, s_abc_padded, s_cd}

\* the texts of the caption elements that are visible at a tick
VisibleElements == Batches(PollFragments, MaxElements)

NextPoll ==
    \/ Locate
    \/ \E f \in PollFragments :
        MutationCallback(<<f>>) /\ Len(buffer') <= MaxEntries /\ UNCHANGED <<caption, page>>
    \/ \E captionTexts \in VisibleElements :
        PollTick(captionTexts) /\ Len(buffer') <= MaxEntries /\ UNCHANGED <<caption, page>>
    \/ Tick(1, MaxClock) /\ UNCHANGED <<caption, page>>

SpecPoll == Init /\ [][NextPoll]_vars

\* C30: a poll tick over caption elements that have not changed since the
\* tick before leaves the texts of the buffer as that tick left them.
C30_PollIdempotent ==
    [][\A captionTexts \in VisibleElements :
        PollTick(captionTexts) =>
            LET again == forEachText([buffer |-> buffer', path |-> path',
                                      frag |-> frag', repeated |-> repeated'],
                                     pollTexts(captionTexts), now')
            IN  texts(again.buffer) = texts(buffer')
      ]_vars

\* C31: a fragment that is not noise and whose trimmed text has exactly two
\* characters is taken in by a poll tick as processText takes it in when a
\* mutation notification hands it over.
C31_SameLengthRule ==
    [][\A f \in PollFragments :
        (Len(trim(f)) = 2 /\ ~isUIText(trim(f)) /\ PollTick(<<f>>))
            => buffer' = processText(buffer, f, now).buffer
      ]_vars

\* the entries younger than 90000 ms are those after the first k
SuffixFrom(k) == \A i \in 1..Len(buffer) : InWindow(i) <=> i > k

\* C32: the timestamps of the entries never decrease along the buffer, so
\* the entries inside the window are a suffix of the buffer, and a
\* getRecentCaptions call returns the joined texts of that suffix.
C32_TimestampsOrdered ==
    /\ \A i \in 1..(Len(buffer) - 1) : buffer[i].time <= buffer[i + 1].time
    /\ \E k \in 0..Len(buffer) :
        /\ SuffixFrom(k)
        /\ op = "getRecentCaptions" =>
            ret = join(texts(SubSeq(buffer, k + 1, Len(buffer))), <<"\n">>)

\* a read returned a proper suffix: the older entry had aged out, and the
\* newer one had been rewritten by an update after it was pushed
C32_Witness ==
    /\ op = "getRecentCaptions"
    /\ Len(buffer) = 2
    /\ ~InWindow(1)
    /\ InWindow(2)
    /\ buffer[1].time < buffer[2].time
    /\ path = "update"
    /\ ret = buffer[2].text

(***************************************************************************)
(* Frame scenario: a fragment that an older entry already holds            *)
(***************************************************************************)
FrameFragments == {s_ab, s_cd, s_xab}

MaxFrameEntries == 3

NextFrame ==
    \/ Locate
    \/ \E f \in FrameFragments :
        MutationCallback(<<f>>) /\ Len(buffer') <= MaxFrameEntries
            /\ UNCHANGED <<caption, page>>
    \/ \E f \in FrameFragments :
        PollTick(<<f>>) /\ Len(buffer') <= MaxFrameEntries
            /\ UNCHANGED <<caption, page>>
    \/ Tick(1, MaxClock) /\ UNCHANGED <<caption, page>>

SpecFrame == Init /\ [][NextFrame]_vars

\* the entries before the last are as they were, moved down by one place if
\* the oldest entry of a full buffer was evicted
OthersKept ==
    \/ \A i \in 1..(Len(buffer) - 1) : buffer'[i] = buffer[i]
    \/ /\ Len(buffer) = MaxBufferItems
       /\ Len(buffer') = MaxBufferItems
       /\ \A i \in 2..Len(buffer) : buffer'[i - 1] = buffer[i]

\* an entry before the last holds text
HeldEarlier(text) == \E i \in 1..(Len(buffer) - 1) : buffer[i].text = text

\* C33 as stated: a processText call leaves every entry but the last as it
\* was, and a fragment equal to the text of an entry before the last, and
\* not to that of the last, is appended as a new entry.
C33_EarlierEntryAppended ==
    [][\A f \in FrameFragments :
        OneCall(f) =>
            /\ OthersKept
            /\ (HeldEarlier(trim(f)) /\ buffer[Len(buffer)].text # trim(f)) =>
                /\ Len(buffer') = Len(buffer) + 1
                /\ buffer'[Len(buffer')] = [text |-> trim(f), time |-> now]
      ]_vars

\* C33 amended: a processText call leaves every entry but the last as it
\* was, and a fragment equal to the text of an entry before the last is
\* appended as a new entry unless it contains the last entry's text or is
\* contained in it.
C33_OnlyLastEntry ==
    [][\A f \in FrameFragments :
        OneCall(f) =>
            /\ OthersKept
            /\ (/\ HeldEarlier(trim(f))
                /\ ~includes(trim(f), buffer[Len(buffer)].text)
                /\ ~includes(buffer[Len(buffer)].text, trim(f))) =>
                /\ Len(buffer') = Len(buffer) + 1
                /\ buffer'[Len(buffer')] = [text |-> trim(f), time |-> now]
      ]_vars

\* the text of the first entry arrived again after an unrelated entry and
\* was appended; the first entry kept its older timestamp
C33_Witness ==
    /\ path = "append"
    /\ Len(buffer) = 3
    /\ buffer[3].text = buffer[1].text
    /\ buffer[2].text # buffer[1].text
    /\ buffer[1].time < buffer[3].time

(***************************************************************************)
(* Sidebar: injection, presence check and stealth mode                     *)
(***************************************************************************)
\* what the stealth functions read and write
Shown == [isHidden |-> isHidden, launcher |-> launcher, widget |-> widget]

\* enableStealth(): style of a missing element throws, and the statements
\* after it do not run
enableStealth(st) ==
    IF st.widget = "absent" THEN st
    ELSE IF st.launcher = "absent" THEN [st EXCEPT !.widget = "none"]
    ELSE [isHidden |-> TRUE, launcher |-> "none", widget |-> "none"]

\* disableStealth()
disableStealth(st) ==
    IF st.widget = "absent" THEN st
    ELSE IF st.launcher = "absent" THEN [st EXCEPT !.widget = ""]
    ELSE [isHidden |-> FALSE, launcher |-> "flex", widget |-> ""]

\* toggleStealth()
toggleStealth(st) == IF st.isHidden THEN disableStealth(st) ELSE enableStealth(st)

\* a keydown of Escape is dispatched to n listeners, one after the other
RECURSIVE dispatchKeydown(_, _)
dispatchKeydown(st, n) ==
    IF n = 0 THEN st ELSE dispatchKeydown(toggleStealth(st), n - 1)

\* the stealth functions have left st
Show(st) ==
    /\ isHidden' = st.isHidden
    /\ launcher' = st.launcher
    /\ widget' = st.widget

\* injectSidebar(): the elements in the document are removed, the cached
\* HTML is inserted, and the listeners are attached to the new elements and,
\* by setupStealthMode, to the document
injectSidebar ==
    /\ launcher' = ""
    /\ widget' = ""
    /\ triggerBtn' = triggerBtn + 1
    /\ btnDisabled' = FALSE
    /\ keydownListeners' = keydownListeners + 1
    /\ UNCHANGED isHidden

\* injections in a run
MaxInjections == 2

\* ensureLauncherPresence(), from the 2 s interval or 500 ms after the tab
\* became visible; both conditions test the elements found on entry
EnsureLauncherPresence ==
    /\ triggerBtn < MaxInjections
    /\ IF \/ launcher = "absent" /\ ~isHidden
          \/ launcher # "absent" /\ widget = "absent"
       THEN injectSidebar
       ELSE UNCHANGED <<stealth, btnDisabled>>
    /\ UNCHANGED <<requests, lastMessage, clicks, peer, cloud, Grabber>>

\* the host page removes an element of the sidebar from the document
PageRemoves(el) ==
    /\ IF el = "launcher"
       THEN launcher # "absent" /\ launcher' = "absent" /\ UNCHANGED widget
       ELSE widget # "absent" /\ widget' = "absent" /\ UNCHANGED launcher
    /\ UNCHANGED <<isHidden, keydownListeners, triggerBtn>>
    /\ UNCHANGED <<requests, btnDisabled, lastMessage, clicks, peer, cloud, Grabber>>

\* the user presses Escape: every keydown listener of the document runs
EscapeKeydown ==
    /\ Show(dispatchKeydown(Shown, keydownListeners))
    /\ UNCHANGED <<keydownListeners, triggerBtn>>
    /\ UNCHANGED <<requests, btnDisabled, lastMessage, clicks, peer, cloud, Grabber>>

\* the user double-clicks the launcher
LauncherDblClick ==
    /\ launcher \notin {"absent", "none"}
    /\ Show(toggleStealth(Shown))
    /\ UNCHANGED <<keydownListeners, triggerBtn>>
    /\ UNCHANGED <<requests, btnDisabled, lastMessage, clicks, peer, cloud, Grabber>>

\* checkScreenSharing(), from the MutationObserver of the body or the 2 s
\* timeout; isPresenting: an indicator of presenting is in the document
CheckScreenSharing(isPresenting) ==
    /\ IF isPresenting /\ ~isHidden
       THEN Show(enableStealth(Shown))
       ELSE UNCHANGED <<isHidden, launcher, widget>>
    /\ UNCHANGED <<keydownListeners, triggerBtn>>
    /\ UNCHANGED <<requests, btnDisabled, lastMessage, clicks, peer, cloud, Grabber>>

(***************************************************************************)
(* Sidebar scenario: the host page re-renders while the sidebar is in use  *)
(***************************************************************************)
SidebarSearches == {SearchReply(FALSE, TRUE, TRUE, TRUE, <<Result(1, 80)>>)}

NextSidebar ==
    \/ Locate
    \/ MutationCallback(<<s_abc>>) /\ UNCHANGED <<caption, page>>
    \/ TriggerClick /\ UNCHANGED caption
    \/ Worker(DefaultSettings, SidebarSearches, ConcurrentReplies)
    \/ EnsureLauncherPresence
    \/ \E el \in {"launcher", "widget"} : PageRemoves(el)
    \/ EscapeKeydown
    \/ LauncherDblClick
    \/ \E isPresenting \in BOOLEAN : CheckScreenSharing(isPresenting)

SpecSidebar == Init /\ [][NextSidebar]_vars

\* requests of this page whose callback has not run
InFlight == {i \in 1..Len(requests) : requests[i].sender = 1}

\* C34: at most one request of the page is in flight, and while one is, the
\* trigger button in the document is disabled, also after the presence check
\* has injected the sidebar again.
C34_OneRequestInFlight ==
    /\ Cardinality(InFlight) <= 1
    /\ (InFlight # {} /\ widget # "absent") => btnDisabled

\* C35: a press of Escape with the sidebar in the document flips isHidden,
\* however often the sidebar has been injected.
C35_EscapeFlipsOnce ==
    [][(launcher # "absent" /\ widget # "absent" /\ EscapeKeydown)
            => isHidden' = ~isHidden
      ]_vars

\* neither the launcher nor the widget is displayed
NotDisplayed(l, w) == l \in {"absent", "none"} /\ w \in {"absent", "none"}

\* C36: while isHidden is true and the launcher and the widget are not
\* displayed, no presence check, screen-sharing check or removal by the host
\* page brings either of them back on display.
C36_HiddenWhileStealth ==
    [][(/\ isHidden
        /\ NotDisplayed(launcher, widget)
        /\ \/ EnsureLauncherPresence
           \/ \E isPresenting \in BOOLEAN : CheckScreenSharing(isPresenting)
           \/ \E el \in {"launcher", "widget"} : PageRemoves(el))
            => NotDisplayed(launcher', widget')
      ]_vars

(***************************************************************************)
(* Cloud: initFirebase, CloudDB.saveDocument, handleCloudSyncAll           *)
(***************************************************************************)
\* what initFirebase returns: null, or { app, db, ... }
NullFirebase == [ok |-> FALSE, app |-> 0, db |-> 0]

Handles(a, d) == [ok |-> TRUE, app |-> a, db |-> d]

\* getFirestore(app): the Firestore instance of the app
getFirestore(a) == a

\* initFirebase() up to its return or its await of signInAnonymously;
\* handle is what this invocation of initializeApp returns
initFirebase(caller, handle) ==
    IF isInitialized
    THEN /\ inits' = Append(inits, [pc |-> "done", caller |-> caller,
                                   result |-> Handles(app, db)])
         /\ UNCHANGED <<app, db, isInitialized, initializeAppCalls>>
    ELSE IF firebaseConfig = "YOUR_API_KEY"
    THEN /\ inits' = Append(inits, [pc |-> "done", caller |-> caller,
                                   result |-> NullFirebase])
         /\ UNCHANGED <<app, db, isInitialized, initializeAppCalls>>
    ELSE /\ initializeAppCalls' = initializeAppCalls + 1
         /\ app' = handle
         /\ db' = getFirestore(handle)
         /\ inits' = Append(inits, [pc |-> "signIn", caller |-> caller,
                                   result |-> NullFirebase])
         /\ UNCHANGED isInitialized

\* the handles initializeApp can return: the app of the first invocation
\* again, or a new one
AppHandles == {1, initializeAppCalls + 1}

\* calls of initFirebase by CloudDB methods other than saveDocument
MaxInitCalls == 2

\* the extension's developer has put the project's keys into firebaseConfig
Configure ==
    /\ firebaseConfig = "YOUR_API_KEY"
    /\ inits = <<>>
    /\ sync.pc = "idle"
    /\ firebaseConfig' = "key"
    /\ UNCHANGED <<app, db, isInitialized, initializeAppCalls, inits, sync>>
    /\ UNCHANGED <<requests, btnDisabled, lastMessage, clicks, peer, stealth, Grabber>>

\* CLOUD_HEALTH: CloudDB.healthCheck calls initFirebase if the keys are set
HealthCheck(handle) ==
    /\ firebaseConfig # "YOUR_API_KEY"
    /\ Cardinality({i \in 1..Len(inits) : inits[i].caller = "healthCheck"}) < MaxInitCalls
    /\ initFirebase("healthCheck", handle)
    /\ UNCHANGED <<firebaseConfig, sync>>
    /\ UNCHANGED <<requests, btnDisabled, lastMessage, clicks, peer, stealth, Grabber>>

\* signInAnonymously settled for activation i of initFirebase
SignInSettles(i, resolved) ==
    /\ inits[i].pc = "signIn"
    /\ IF resolved
       THEN /\ isInitialized' = TRUE
            /\ inits' = [inits EXCEPT ![i].pc = "done", ![i].result = Handles(app, db)]
       ELSE /\ inits' = [inits EXCEPT ![i].pc = "done"]
            /\ UNCHANGED isInitialized
    /\ UNCHANGED <<firebaseConfig, app, db, initializeAppCalls, sync>>
    /\ UNCHANGED <<requests, btnDisabled, lastMessage, clicks, peer, stealth, Grabber>>

\* the loop of handleCloudSyncAll moves past the first document of localDocs:
\* to the fetch of the next one, or to the response
nextDoc(s) ==
    IF Len(s.localDocs) > 1
    THEN [s EXCEPT !.localDocs = Tail(@), !.pc = "fetch", !.attempted = @ + 1]
    ELSE [s EXCEPT !.localDocs = <<>>, !.pc = "done",
                   !.sent = <<[success |-> TRUE, documents |-> s.syncedCount]>>]

\* await CloudDB.saveDocument(...) returned { success }; syncedCount++
afterSave(s, success) ==
    nextDoc([s EXCEPT !.syncedCount = @ + 1,
                      !.saved = IF success THEN @ + 1 ELSE @])

\* CLOUD_SYNC_ALL arrives: handleCloudSyncAll awaits loadCloudDB()
CloudSyncAll ==
    /\ sync.pc = "idle"
    /\ sync' = [sync EXCEPT !.pc = "load"]
    /\ UNCHANGED <<firebaseConfig, app, db, isInitialized, initializeAppCalls, inits>>
    /\ UNCHANGED <<requests, btnDisabled, lastMessage, clicks, peer, stealth, Grabber>>

\* loadCloudDB() resolved, with the module or with null
LoadSettles(loaded) ==
    /\ sync.pc = "load"
    /\ sync' = IF loaded THEN [sync EXCEPT !.pc = "list"]
               ELSE [sync EXCEPT !.pc = "done",
                                 !.sent = <<[success |-> FALSE, documents |-> 0]>>]
    /\ UNCHANGED <<firebaseConfig, app, db, isInitialized, initializeAppCalls, inits>>
    /\ UNCHANGED <<requests, btnDisabled, lastMessage, clicks, peer, stealth, Grabber>>

\* data.documents || [] of the reply of GET /documents; a rejected fetch, a
\* status that is not ok and a body that does not parse leave localDocs empty
listedDocs(reply) ==
    IF reply.rejects \/ ~reply.ok \/ ~reply.parsable THEN <<>> ELSE reply.documents

\* the fetch of the document list settled
ListSettles(reply) ==
    /\ sync.pc = "list"
    /\ LET docs == listedDocs(reply) IN
        sync' = IF docs = <<>>
                THEN [sync EXCEPT !.pc = "done",
                                  !.sent = <<[success |-> TRUE, documents |-> 0]>>]
                ELSE [sync EXCEPT !.pc = "fetch", !.localDocs = docs,
                                  !.listed = Len(docs), !.attempted = 1]
    /\ UNCHANGED <<firebaseConfig, app, db, isInitialized, initializeAppCalls, inits>>
    /\ UNCHANGED <<requests, btnDisabled, lastMessage, clicks, peer, stealth, Grabber>>

\* the fetch of the full document settled: a reply that is ok and parses
\* leads into CloudDB.saveDocument, which calls initFirebase; any other is
\* skipped
FetchSettles(reply, handle) ==
    /\ sync.pc = "fetch"
    /\ IF ~reply.rejects /\ reply.ok /\ reply.parsable
       THEN /\ initFirebase("saveDocument", handle)
            /\ sync' = [sync EXCEPT !.pc = "init", !.init = Len(inits) + 1]
       ELSE /\ sync' = nextDoc(sync)
            /\ UNCHANGED <<app, db, isInitialized, initializeAppCalls, inits>>
    /\ UNCHANGED firebaseConfig
    /\ UNCHANGED <<requests, btnDisabled, lastMessage, clicks, peer, stealth, Grabber>>

\* saveDocument resumes with the result of its initFirebase call: without a
\* db it throws into its own catch and returns success: false, else it
\* awaits setDoc
SaveResumes ==
    /\ sync.pc = "init"
    /\ inits[sync.init].pc = "done"
    /\ sync' = IF ~inits[sync.init].result.ok \/ inits[sync.init].result.db = 0
               THEN afterSave(sync, FALSE)
               ELSE [sync EXCEPT !.pc = "setDoc"]
    /\ UNCHANGED <<firebaseConfig, app, db, isInitialized, initializeAppCalls, inits>>
    /\ UNCHANGED <<requests, btnDisabled, lastMessage, clicks, peer, stealth, Grabber>>

\* setDoc settled: saveDocument returns success: true, or from its catch
\* success: false
SetDocSettles(resolved) ==
    /\ sync.pc = "setDoc"
    /\ sync' = afterSave(sync, resolved)
    /\ UNCHANGED <<firebaseConfig, app, db, isInitialized, initializeAppCalls, inits>>
    /\ UNCHANGED <<requests, btnDisabled, lastMessage, clicks, peer, stealth, Grabber>>

(***************************************************************************)
(* Cloud scenario: a sync of the local documents, and health checks        *)
(***************************************************************************)
\* local documents
MaxDocs == 2

Titles == [i \in 1..MaxDocs |-> <<"doc", i>>]

ListReplies ==
    { [rejects |-> TRUE, ok |-> FALSE, parsable |-> FALSE, documents |-> <<>>],
      [rejects |-> FALSE, ok |-> FALSE, parsable |-> FALSE, documents |-> <<>>] }
    \cup { [rejects |-> FALSE, ok |-> TRUE, parsable |-> TRUE,
            documents |-> SubSeq(Titles, 1, n)] : n \in 0..MaxDocs }

DocReplies ==
    { [rejects |-> TRUE, ok |-> FALSE, parsable |-> FALSE],
      [rejects |-> FALSE, ok |-> FALSE, parsable |-> FALSE],
      [rejects |-> FALSE, ok |-> TRUE, parsable |-> FALSE],
      [rejects |-> FALSE, ok |-> TRUE, parsable |-> TRUE] }

NextCloud ==
    \/ Configure
    \/ \E handle \in AppHandles : HealthCheck(handle)
    \/ \E i \in 1..Len(inits), resolved \in BOOLEAN : SignInSettles(i, resolved)
    \/ CloudSyncAll
    \/ \E loaded \in BOOLEAN : LoadSettles(loaded)
    \/ \E reply \in ListReplies : ListSettles(reply)
    \/ \E reply \in DocReplies, handle \in AppHandles : FetchSettles(reply, handle)
    \/ SaveResumes
    \/ \E resolved \in BOOLEAN : SetDocSettles(resolved)

SpecCloud == Init /\ [][NextCloud]_vars

\* C37: the documents count that handleCloudSyncAll reports is the number
\* of documents whose saveDocument returned success: true, and every listed
\* document was attempted.
C37_CountsSavedDocuments ==
    (sync.pc = "done" /\ sync.sent[1].success) =>
        /\ sync.sent[1].documents = sync.saved
        /\ sync.attempted = sync.listed

\* C38: as long as no initFirebase call has returned null, initializeApp
\* has been invoked at most once, and the calls that returned handles all
\* returned the same app and db.
C38_InitializeOnce ==
    /\ (\A i \in 1..Len(inits) : inits[i].pc = "done" => inits[i].result.ok)
            => initializeAppCalls <= 1
    /\ \A i, j \in 1..Len(inits) :
        (inits[i].pc = "done" /\ inits[i].result.ok
            /\ inits[j].pc = "done" /\ inits[j].result.ok)
            => inits[i].result = inits[j].result

====
